---- MODULE Spec2Model ----
(***************************************************************************)
(* SharePointDownloader: src/sharepoint_connector.py.                      *)
(*                                                                         *)
(* The model follows class SharepointDownloader of sharepoint_connector.py *)
(* (the variant that re-raises every failure as RuntimeError).             *)
(* src/spc_connector.py is an earlier draft of the same class whose class  *)
(* statement `class SharepointDownloader(company_tenant_id = None):`       *)
(* raises TypeError when the module is loaded, so none of its methods can  *)
(* run; it is not modelled.                                                *)
(*                                                                         *)
(* One step of the model is one external call (identity provider, Graph    *)
(* listing, metadata fetch, byte retrieval) together with all the local    *)
(* computation the code does on the response up to its next external call. *)
(***************************************************************************)
EXTENDS Integers, Sequences, FiniteSets

\* ------------------------------------------------------------------------
\* Bounds
\* ------------------------------------------------------------------------
MaxTree == 4       \* nodes of a folder tree handed to find_file directly
MaxNodes == 3      \* nodes of the forest below the drive root (download)
MaxDrives == 2     \* entries of the site's drive listing
MaxListing == 3    \* entries of a listing handed to get_response_id directly

\* ------------------------------------------------------------------------
\* Values
\* ------------------------------------------------------------------------
\* Python None.  Item ids are the positive node numbers of the forest and
\* drive ids the positive positions of the drive listing, so 0 is free.
None == 0

\* json keys present in an entry: a file entry carries
\* '@microsoft.graph.downloadUrl', a folder entry carries 'folder', an entry
\* of kind "other" carries neither.
Kinds == {"file", "folder", "other"}

\* arguments of download_file in the scenarios of the design document
target_file_name == "Q1.xlsx"
folder_match == "Reports"

\* responses of the remote side to one request
Responses == {"ok", "transport_error", "error_payload"}

VARIABLES
    driveListing,   \* 'value' of GET {url}: sequence of [name, id]
    forest,         \* items of the Documents drive: sequence of [parent, kind, name]
    pc,             \* position of download_file / find_file
    headers,        \* local `headers` of download_file
    drive_id,       \* local `drive_id`
    root_folder_id, \* local `root_folder_id`
    stack,          \* find_file activation records: sequence of [folder, idx]
    file_id,        \* value returned by the outermost find_file
    outcome,        \* "running", "success", "not_found", "RuntimeError"
    raisedBy,       \* the method whose try block first saw the exception
    calls,          \* external calls issued so far: sequence of [op, arg, resp]
    rj_resp,        \* get_response_id called directly: is result_json well-formed
    rj_value,       \*   'value' of result_json
    rj_match,       \*   its folder_match argument
    rj_ret          \*   what it returned

vars == <<driveListing, forest, pc, headers, drive_id, root_folder_id, stack,
          file_id, outcome, raisedBy, calls, rj_resp, rj_value, rj_match, rj_ret>>

\* ------------------------------------------------------------------------
\* The remote store
\* ------------------------------------------------------------------------
Node(parent, kind, name) == [parent |-> parent, kind |-> kind, name |-> name]

\* what a node of the forest can be, as the next node after forest f.
\* Entries directly below the drive root (parent 0) are folders.
TopOptions == {Node(0, "folder", n) : n \in {"Reports", "reports"}}

SubOptions(f) ==
    {Node(p, k[1], k[2]) :
        p \in {q \in 1..Len(f) : f[q].kind = "folder"},
        k \in {<<"folder", "Archive">>, <<"folder", "Q1.xlsx">>,
               <<"file", "Q1.xlsx">>, <<"file", "Q2.xlsx">>,
               <<"other", "Q1.xlsx">>}}

RECURSIVE ForestsOf(_, _)
\* all forests of at most n nodes; tops: may a node beyond the first hang
\* directly below the drive root
ForestsOf(n, tops) ==
    IF n = 0 THEN {<< >>}
    ELSE LET prev == ForestsOf(n - 1, tops)
             full == {f \in prev : Len(f) = n - 1}
             opts(f) == IF Len(f) = 0 THEN TopOptions
                        ELSE IF tops THEN TopOptions \cup SubOptions(f)
                        ELSE SubOptions(f)
         IN prev \cup UNION {{Append(f, nd) : nd \in opts(f)} : f \in full}

\* Scenario A of the design document, in both orders of the children of
\* Reports
ScenarioA1 ==
    << Node(0, "folder", "Reports"),
       Node(1, "file", "Q1.xlsx"), Node(1, "folder", "Archive"),
       Node(3, "file", "Q1.xlsx"), Node(3, "file", "Q2.xlsx") >>
ScenarioA2 ==
    << Node(0, "folder", "Reports"),
       Node(1, "folder", "Archive"), Node(1, "file", "Q1.xlsx"),
       Node(2, "file", "Q1.xlsx"), Node(2, "file", "Q2.xlsx") >>

RECURSIVE ChildrenFrom(_, _, _)
ChildrenFrom(f, p, i) ==
    IF i > Len(f) THEN << >>
    ELSE IF f[i].parent = p
         THEN <<[name |-> f[i].name, id |-> i, kind |-> f[i].kind]>>
              \o ChildrenFrom(f, p, i + 1)
         ELSE ChildrenFrom(f, p, i + 1)

\* 'value' of GET .../items/{p}/children (p = 0: .../root/children)
Children(p) == ChildrenFrom(forest, p, 1)

\* the remote side answers a request for an id it does not know (the text
\* "None" formatted into the URL) with an error body without 'value', or
\* the request fails in transport; it never answers with a listing
ServerResponses(id) == IF id = None THEN Responses \ {"ok"} ELSE Responses

\* ------------------------------------------------------------------------
\* get_token
\* ------------------------------------------------------------------------
\* answers of acquire_token_for_client: a dict with 'access_token', a dict
\* with 'error' and no 'access_token', or an exception
TokenResponses == {"ok", "error_status", "unreachable"}

\* variant: the exception is printed and None is returned
get_token_Swallow(resp) ==
    IF resp = "ok" THEN [raised |-> FALSE, headers |-> "Bearer"]
    ELSE [raised |-> FALSE, headers |-> None]

\* try: result['access_token'] ... return headers
\* except Exception: raise RuntimeError
get_token(resp) ==
    IF resp = "ok" THEN [raised |-> FALSE, headers |-> "Bearer"]
    ELSE [raised |-> TRUE, headers |-> None]

\* ------------------------------------------------------------------------
\* get_response_id
\* ------------------------------------------------------------------------
Lower(nm) ==
    IF nm = "Documents" THEN "documents"
    ELSE IF nm = "Reports" THEN "reports"
    ELSE nm

\* variant: the names are compared without regard to case
NameEq_IgnoreCase(a, b) == Lower(a) = Lower(b)

\* item['name'] == folder_match : string equality, case-sensitive
NameEq(a, b) == a = b

RECURSIVE ScanValue_Last(_, _, _)
\* variant: the loop does not stop at the first match
ScanValue_Last(value, match, i) ==
    IF i > Len(value) THEN None
    ELSE LET rest == ScanValue_Last(value, match, i + 1)
         IN IF rest # None THEN rest
            ELSE IF NameEq(value[i].name, match) THEN value[i].id
            ELSE None

RECURSIVE ScanValue(_, _, _)
\* for item in result_json['value']: if item['name'] == folder_match:
\*     return item['id'];  return None
ScanValue(value, match, i) ==
    IF i > Len(value) THEN None
    ELSE IF NameEq(value[i].name, match) THEN value[i].id
    ELSE ScanValue(value, match, i + 1)

\* resp = "error_payload": json.loads succeeds, result_json['value'] raises
\* KeyError, re-raised as RuntimeError
get_response_id(resp, value, match) ==
    IF resp = "ok" THEN [raised |-> FALSE, id |-> ScanValue(value, match, 1)]
    ELSE [raised |-> TRUE, id |-> None]

\* ------------------------------------------------------------------------
\* find_file
\* ------------------------------------------------------------------------
\* variant: an entry counts as a file when it is not a folder
HasDownloadUrl_NotFolder(item) == item.kind # "folder"

\* '@microsoft.graph.downloadUrl' in item
HasDownloadUrl(item) == item.kind = "file"

\* 'folder' in item
HasFolder(item) == item.kind = "folder"

\* variant: the name is compared with the wrong argument
IsTarget_FolderMatch(item) == item.name = folder_match

\* item['name'] == target_file_name
IsTarget(item) == item.name = target_file_name

\* variant: the result of the recursive call is dropped
Truthy_Never(v) == FALSE

\* variant: the result of the recursive call is returned unconditionally
Truthy_Always(v) == TRUE

\* line 171, `if file_id:` : None is false, an item id is true
Truthy(v) == v # None

\* variant: the metadata is fetched without testing file_id
Found_Always(v) == TRUE

\* line 194, `if file_id:` in download_file
Found(v) == v # None

Top(stk) == stk[Len(stk)]
Pop(stk) == SubSeq(stk, 1, Len(stk) - 1)
Frame(folder, idx) == [folder |-> folder, idx |-> idx]

RECURSIVE Loop(_, _), Return(_, _)
\* the activation on top of stk returns v to its caller
Return(stk, v) ==
    IF Len(stk) = 1 THEN [kind |-> "return", file_id |-> v]
    ELSE IF Truthy(v) THEN Return(Pop(stk), v)
    ELSE Loop(Pop(stk), Top(Pop(stk)).idx + 1)

\* the for loop of the activation on top of stk, from item i on, up to the
\* next request (a recursive call) or the return of the outermost call
Loop(stk, i) ==
    LET items == Children(Top(stk).folder) IN
    IF i > Len(items) THEN Return(stk, None)
    ELSE IF HasDownloadUrl(items[i])
         THEN IF IsTarget(items[i]) THEN Return(stk, items[i].id)
              ELSE Loop(stk, i + 1)
         ELSE IF HasFolder(items[i])
              THEN [kind |-> "call",
                    stack |-> Append(Append(Pop(stk), Frame(Top(stk).folder, i)),
                                     Frame(items[i].id, 0))]
              ELSE Loop(stk, i + 1)

\* variant: the exception is printed and the activation returns None
OnException_Swallow(stk) == Return(stk, None)

\* except Exception as e: raise RuntimeError -- in every activation, so the
\* exception leaves the outermost call
OnException(stk) == [kind |-> "raise"]

\* get_response_id is not being called on its own
NoDirectResolve ==
    /\ rj_resp = "ok" /\ rj_value = << >> /\ rj_match = ""
    /\ rj_ret = [raised |-> FALSE, id |-> None]

\* one activation of find_file issues its request and runs on
FindFileStep(resp) ==
    LET r == IF resp = "ok" THEN Loop(stack, 1) ELSE OnException(stack) IN
    /\ calls' = Append(calls, [op |-> "children", arg |-> Top(stack).folder,
                               resp |-> resp])
    /\ CASE r.kind = "call" ->
              /\ stack' = r.stack
              /\ UNCHANGED <<pc, file_id, outcome, raisedBy>>
         [] r.kind = "return" ->
              /\ stack' = << >>
              /\ file_id' = r.file_id
              /\ pc' = "returned"
              /\ UNCHANGED <<outcome, raisedBy>>
         [] r.kind = "raise" ->
              /\ stack' = << >>
              /\ pc' = "done"
              /\ outcome' = "RuntimeError"
              /\ raisedBy' = "find_file"
              /\ UNCHANGED file_id

find_file ==
    /\ pc = "find_file"
    /\ \E resp \in ServerResponses(Top(stack).folder) : FindFileStep(resp)
    /\ UNCHANGED <<driveListing, forest, headers, drive_id, root_folder_id,
                   rj_resp, rj_value, rj_match, rj_ret>>

\* ------------------------------------------------------------------------
\* find_file called directly on the root folder of a tree
\* ------------------------------------------------------------------------

InitSearch ==
    /\ forest \in {f \in ForestsOf(MaxTree, FALSE) : Len(f) >= 1}
    /\ driveListing = <<[name |-> "Documents", id |-> 1]>>
    /\ pc = "find_file"
    /\ headers = "Bearer"
    /\ drive_id = 1
    /\ root_folder_id = 1
    /\ stack = <<Frame(1, 0)>>
    /\ file_id = None
    /\ outcome = "running"
    /\ raisedBy = "nobody"
    /\ calls = << >>
    /\ NoDirectResolve

NextSearch == find_file

SpecSearch == InitSearch /\ [][NextSearch]_vars

\* ------------------------------------------------------------------------
\* download_file
\* ------------------------------------------------------------------------
rjvars == <<rj_resp, rj_value, rj_match, rj_ret>>

Call(op, arg, resp) == [op |-> op, arg |-> arg, resp |-> resp]

\* an exception reaches the except clause of download_file (or leaves the
\* method called directly): RuntimeError
Raise(who) ==
    /\ pc' = "done"
    /\ outcome' = "RuntimeError"
    /\ raisedBy' = who

\* a listing request of get_drive_id followed by get_response_id on its
\* response: requests.get raises on a transport failure, get_response_id
\* raises on a body without 'value'
Resolve(resp, value, match) ==
    IF resp = "transport_error" THEN [raised |-> TRUE, id |-> None, by |-> "get_drive_id"]
    ELSE LET r == get_response_id(resp, value, match)
         IN [raised |-> r.raised, id |-> r.id, by |-> "get_response_id"]

\* line 189: headers = self.get_token()
DownloadGetToken ==
    /\ pc = "download_file"
    /\ \E resp \in TokenResponses :
         LET r == get_token(resp) IN
         /\ calls' = Append(calls, Call("token", None, resp))
         /\ IF r.raised
            THEN Raise("get_token") /\ UNCHANGED headers
            ELSE /\ headers' = r.headers
                 /\ pc' = "get_drive_id"
                 /\ UNCHANGED <<outcome, raisedBy>>
    /\ UNCHANGED <<driveListing, forest, drive_id, root_folder_id, stack,
                   file_id, rjvars>>

\* line 131: get_drive_id acquires a token of its own
GetDriveIdToken ==
    /\ pc = "get_drive_id"
    /\ \E resp \in TokenResponses :
         LET r == get_token(resp) IN
         /\ calls' = Append(calls, Call("token", None, resp))
         /\ IF r.raised
            THEN Raise("get_token")
            ELSE pc' = "list_drives" /\ UNCHANGED <<outcome, raisedBy>>
    /\ UNCHANGED <<driveListing, forest, headers, drive_id, root_folder_id,
                   stack, file_id, rjvars>>

\* lines 132-133: list the drives of the site, resolve 'Documents'
ListDrives ==
    /\ pc = "list_drives"
    /\ \E resp \in Responses :
         LET r == Resolve(resp, driveListing, "Documents") IN
         /\ calls' = Append(calls, Call("drives", None, resp))
         /\ IF r.raised
            THEN Raise(r.by) /\ UNCHANGED drive_id
            ELSE /\ drive_id' = r.id
                 /\ pc' = "list_root"
                 /\ UNCHANGED <<outcome, raisedBy>>
    /\ UNCHANGED <<driveListing, forest, headers, root_folder_id, stack,
                   file_id, rjvars>>

\* lines 134-137: list the children of the drive's root, resolve
\* folder_match, return the pair; line 191 then calls find_file with it
ListRoot ==
    /\ pc = "list_root"
    /\ \E resp \in ServerResponses(drive_id) :
         LET r == Resolve(resp, Children(0), folder_match) IN
         /\ calls' = Append(calls, Call("root_children", drive_id, resp))
         /\ IF r.raised
            THEN Raise(r.by) /\ UNCHANGED <<root_folder_id, stack>>
            ELSE /\ root_folder_id' = r.id
                 /\ stack' = <<Frame(r.id, 0)>>
                 /\ pc' = "find_file"
                 /\ UNCHANGED <<outcome, raisedBy>>
    /\ UNCHANGED <<driveListing, forest, headers, drive_id, file_id, rjvars>>

\* lines 194-197: if file_id: fetch the item, read its download URL
FetchMetadata ==
    /\ pc = "returned"
    /\ Found(file_id)
    /\ \E resp \in Responses :
         /\ calls' = Append(calls, Call("metadata", file_id, resp))
         /\ IF resp = "ok"
            THEN pc' = "retrieve" /\ UNCHANGED <<outcome, raisedBy>>
            ELSE Raise("download_file")
    /\ UNCHANGED <<driveListing, forest, headers, drive_id, root_folder_id,
                   stack, file_id, rjvars>>

\* lines 198-199: urlretrieve, then the success message
Retrieve ==
    /\ pc = "retrieve"
    /\ \E resp \in {"ok", "transport_error"} :
         /\ calls' = Append(calls, Call("retrieve", file_id, resp))
         /\ IF resp = "ok"
            THEN pc' = "done" /\ outcome' = "success" /\ UNCHANGED raisedBy
            ELSE Raise("download_file")
    /\ UNCHANGED <<driveListing, forest, headers, drive_id, root_folder_id,
                   stack, file_id, rjvars>>

\* lines 200-201: else: the not-found message
ReportNotFound ==
    /\ pc = "returned"
    /\ ~Found(file_id)
    /\ pc' = "done"
    /\ outcome' = "not_found"
    /\ UNCHANGED <<driveListing, forest, headers, drive_id, root_folder_id,
                   stack, file_id, raisedBy, calls, rjvars>>

RECURSIVE ListingsOf(_, _)
\* the listings of at most n entries with names from the given set; the id
\* of an entry is its position
ListingsOf(n, names) ==
    IF n = 0 THEN {<< >>}
    ELSE LET prev == ListingsOf(n - 1, names)
         IN prev \cup {Append(l, [name |-> nm, id |-> n]) :
                          l \in {k \in prev : Len(k) = n - 1}, nm \in names}

Init ==
    /\ driveListing \in ListingsOf(MaxDrives, {"Documents", "documents"})
    /\ forest \in ForestsOf(MaxNodes, TRUE) \cup {ScenarioA1, ScenarioA2}
    /\ pc = "download_file"
    /\ headers = None
    /\ drive_id = None
    /\ root_folder_id = None
    /\ stack = << >>
    /\ file_id = None
    /\ outcome = "running"
    /\ raisedBy = "nobody"
    /\ calls = << >>
    /\ NoDirectResolve

Next ==
    \/ DownloadGetToken
    \/ GetDriveIdToken
    \/ ListDrives
    \/ ListRoot
    \/ find_file
    \/ FetchMetadata
    \/ Retrieve
    \/ ReportNotFound

Spec == Init /\ [][Next]_vars

\* ------------------------------------------------------------------------
\* get_response_id called directly on a listing
\* ------------------------------------------------------------------------
InitResolve ==
    /\ rj_resp \in {"ok", "error_payload"}
    /\ rj_value \in ListingsOf(MaxListing, {"Documents", "documents", "Reports"})
    /\ rj_match \in {"Documents", "documents", "Reports"}
    /\ rj_ret = [raised |-> FALSE, id |-> None]
    /\ pc = "get_response_id"
    /\ driveListing = << >>
    /\ forest = << >>
    /\ headers = None
    /\ drive_id = None
    /\ root_folder_id = None
    /\ stack = << >>
    /\ file_id = None
    /\ outcome = "running"
    /\ raisedBy = "nobody"
    /\ calls = << >>

CallGetResponseId ==
    /\ pc = "get_response_id"
    /\ LET r == get_response_id(rj_resp, rj_value, rj_match) IN
         /\ rj_ret' = r
         /\ IF r.raised
            THEN Raise("get_response_id")
            ELSE pc' = "returned" /\ UNCHANGED <<outcome, raisedBy>>
    /\ UNCHANGED <<driveListing, forest, headers, drive_id, root_folder_id,
                   stack, file_id, calls, rj_resp, rj_value, rj_match>>

NextResolve == CallGetResponseId

SpecResolve == InitResolve /\ [][NextResolve]_vars

\* ------------------------------------------------------------------------
\* Vocabulary of the properties
\* ------------------------------------------------------------------------
Nodes == 1..Len(forest)
FolderNodes == {n \in Nodes : forest[n].kind = "folder"}

\* a file entry (one that carries a download URL) named target_file_name
IsMatchingFile(n) ==
    forest[n].kind = "file" /\ forest[n].name = target_file_name

RECURSIVE PreOrder(_), PreOrderAll(_, _)
\* the depth-first pre-order walk below and including node n, children in
\* listing order
PreOrder(n) == <<n>> \o PreOrderAll(Children(n), 1)
PreOrderAll(items, i) ==
    IF i > Len(items) THEN << >>
    ELSE PreOrder(items[i].id) \o PreOrderAll(items, i + 1)

Range(sq) == {sq[i] : i \in DOMAIN sq}
PosIn(sq, x) == CHOOSE i \in DOMAIN sq : sq[i] = x

\* the first matching file of the walk from node n, None if there is none
FirstMatch(n) ==
    LET pre == PreOrder(n)
        hits == {i \in DOMAIN pre : IsMatchingFile(pre[i])}
    IN IF hits = {} THEN None
       ELSE pre[CHOOSE i \in hits : \A j \in hits : i <= j]

ChildrenCalls == {i \in DOMAIN calls : calls[i].op = "children"}
ListedFolders == {calls[i].arg : i \in ChildrenCalls}
FailedCalls == {i \in DOMAIN calls : calls[i].resp # "ok"}
ListedOnce ==
    \A i, j \in ChildrenCalls : calls[i].arg = calls[j].arg => i = j

\* ------------------------------------------------------------------------
\* Properties of find_file (SpecSearch: find_file called on the root
\* folder, node 1, of a tree)
\* ------------------------------------------------------------------------

\* C1: when a file named target_file_name exists under the root folder,
\* find_file returns the id of such a file unless a listing request fails;
\* no folder is listed twice; and at the return every listed folder
\* precedes the returned file in the pre-order walk - no later sibling and
\* nothing below a later sibling has been listed.
C1_FoundWithEarlyExit ==
    (\E n \in Range(PreOrder(1)) : IsMatchingFile(n)) =>
        /\ ListedOnce
        /\ pc = "done" => FailedCalls # {}
        /\ pc = "returned" =>
             /\ file_id \in Nodes
             /\ IsMatchingFile(file_id)
             /\ \A f \in ListedFolders :
                  PosIn(PreOrder(1), f) < PosIn(PreOrder(1), file_id)

\* a nested match was returned while a folder later in the walk was left
\* unlisted
C1_Witness ==
    /\ pc = "returned"
    /\ file_id # None
    /\ Len(calls) >= 2
    /\ \E f \in FolderNodes : f \notin ListedFolders

\* C2: when the tree holds no file entry named target_file_name, find_file
\* returns None, and at the return every folder of the tree has been
\* listed exactly once.
C2_AbsentVisitsAll ==
    ((\A n \in Range(PreOrder(1)) : ~IsMatchingFile(n)) /\ pc = "returned") =>
        /\ file_id = None
        /\ ListedFolders = FolderNodes
        /\ ListedOnce
        /\ Len(calls) = Cardinality(FolderNodes)

\* a tree of three folders, two of them siblings, was searched in vain
C2_Witness ==
    /\ pc = "returned"
    /\ file_id = None
    /\ Cardinality(FolderNodes) >= 3
    /\ \E a, b \in FolderNodes : a # b /\ forest[a].parent = forest[b].parent
    /\ Len(calls) = Cardinality(FolderNodes)

\* C9: a failed children listing, at any depth, ends the outermost
\* find_file in RuntimeError: nothing is returned and the failed request is
\* the last one issued.
C9_ListingFailureAborts ==
    \A i \in FailedCalls :
        /\ i = Len(calls)
        /\ pc = "done"
        /\ outcome = "RuntimeError"
        /\ stack = << >>
        /\ file_id = None

\* the listing of a nested folder failed while a sibling of it was still
\* unlisted
C9_Witness ==
    /\ FailedCalls # {}
    /\ outcome = "RuntimeError"
    /\ LET f == calls[Len(calls)].arg IN
         /\ f # 1
         /\ \E g \in FolderNodes :
              /\ g \notin ListedFolders
              /\ forest[g].parent = forest[f].parent

\* C10: find_file returns the first entry, in the depth-first pre-order
\* walk in listing order, that carries a download URL and is named
\* target_file_name, and None when there is no such entry; folders and
\* entries without download URL named target_file_name are never returned.
C10_FirstInPreOrder ==
    pc = "returned" =>
        /\ file_id = FirstMatch(1)
        /\ file_id # None => forest[file_id].kind = "file"

\* a file was returned although a folder or a marker-less entry of the
\* same name comes before it in the walk, and another matching file after
C10_Witness ==
    /\ pc = "returned"
    /\ file_id # None
    /\ \E n \in Nodes :
         /\ forest[n].kind # "file"
         /\ forest[n].name = target_file_name
         /\ PosIn(PreOrder(1), n) < PosIn(PreOrder(1), file_id)
    /\ \E n \in Nodes : n # file_id /\ IsMatchingFile(n)

\* ------------------------------------------------------------------------
\* Properties of download_file and get_drive_id (Spec)
\* ------------------------------------------------------------------------
OpCalls(op) == {i \in DOMAIN calls : calls[i].op = op}
OkCalls(op) == {i \in OpCalls(op) : calls[i].resp = "ok"}
ListingOps == {"drives", "root_children", "children"}
ListingCalls == {i \in DOMAIN calls : calls[i].op \in ListingOps}

HasDocuments == \E i \in DOMAIN driveListing : driveListing[i].name = "Documents"
HasRootFolder ==
    \E n \in Nodes : forest[n].parent = 0 /\ forest[n].name = folder_match

\* the stages of download_file that came out as "not found"
DriveNotFound == OkCalls("drives") # {} /\ ~HasDocuments
RootFolderNotFound ==
    OkCalls("root_children") # {} /\ HasDocuments /\ ~HasRootFolder
NoTransportFailure == \A i \in DOMAIN calls : calls[i].resp # "transport_error"
FileNotFound ==
    /\ \/ pc = "returned"
       \/ OpCalls("metadata") # {}
       \/ outcome \in {"success", "not_found"}
    /\ file_id = None

\* C3: when a stage of download_file comes out as not found (and no request
\* fails in transport), download_file
\* ends with the not-found message and not in an exception, neither the
\* metadata fetch nor the byte retrieval is issued, and once the root
\* folder was not found no children listing is issued.
C3_NotFoundIsReported ==
    ((DriveNotFound \/ RootFolderNotFound \/ FileNotFound) /\ NoTransportFailure) =>
        /\ outcome # "RuntimeError"
        /\ pc = "done" => outcome = "not_found"
        /\ OpCalls("metadata") = {} /\ OpCalls("retrieve") = {}
        /\ RootFolderNotFound => OpCalls("children") = {}

\* C4: when the drive listing has no entry named "Documents" (and no
\* request fails in transport), get_drive_id raises: it returns no pair and issues no listing of a drive
\* root.
C4_NoDocumentsRaisesAtOnce ==
    (DriveNotFound /\ NoTransportFailure) =>
        /\ OpCalls("root_children") = {}
        /\ pc \notin {"find_file", "returned", "retrieve"}
        /\ outcome \in {"running", "RuntimeError"}

\* C5: when the drive listing has an entry named "Documents" and no child
\* of the drive root is named folder_match, get_drive_id returns without
\* raising, and what it returns for the root folder is None (not found).
C5_MissingRootFolderIsNone ==
    (RootFolderNotFound /\ calls[Len(calls)].op = "root_children") =>
        /\ outcome = "running"
        /\ raisedBy = "nobody"
        /\ pc = "find_file"
        /\ root_folder_id = None
        /\ drive_id # None /\ driveListing[drive_id].name = "Documents"

\* get_drive_id has returned for a drive root that holds folders, none of
\* them named folder_match
C5_Witness ==
    /\ pc = "find_file"
    /\ root_folder_id = None
    /\ calls[Len(calls)].op = "root_children"
    /\ Len(Children(0)) >= 1
    /\ HasDocuments

\* C6: when a call to the identity provider fails, download_file ends in
\* RuntimeError raised by get_token, and no drive listing, drive-root
\* listing or children listing has been issued.
C6_AuthFailureBeforeListing ==
    \A i \in OpCalls("token") :
        calls[i].resp # "ok" =>
            /\ i = Len(calls)
            /\ pc = "done"
            /\ outcome = "RuntimeError"
            /\ raisedBy = "get_token"
            /\ ListingCalls = {}

\* the first call to the identity provider answered with an error status
C6_Witness ==
    /\ Len(calls) = 1
    /\ calls[1].op = "token"
    /\ calls[1].resp = "error_status"
    /\ outcome = "RuntimeError"

\* Scenario A
IsScenarioA == forest \in {ScenarioA1, ScenarioA2}
ArchiveNode == CHOOSE n \in Nodes : forest[n].name = "Archive"
TopLevelQ1 ==
    CHOOSE n \in Nodes : forest[n].parent = 1 /\ forest[n].name = "Q1.xlsx"
ArchiveQ1 ==
    CHOOSE n \in Nodes :
        forest[n].parent = ArchiveNode /\ forest[n].name = "Q1.xlsx"
SearchReturned == pc \in {"returned", "retrieve"} \/ outcome \in {"success", "not_found"}

\* C7 as stated: in scenario A the file returned is Reports/Q1.xlsx and
\* Archive is never listed, in whatever order the children of Reports are
\* listed.
C7_AnyOrderTopLevel ==
    IsScenarioA =>
        /\ ArchiveNode \notin ListedFolders
        /\ SearchReturned => file_id = TopLevelQ1

\* C7 amended: in scenario A with Q1.xlsx listed before Archive among the
\* children of Reports, the file returned is Reports/Q1.xlsx and Archive is
\* never listed; with Archive listed first, Archive is listed and the file
\* returned is Archive/Q1.xlsx.
C7_ListingOrderDecides ==
    /\ forest = ScenarioA1 =>
         /\ ArchiveNode \notin ListedFolders
         /\ SearchReturned => file_id = TopLevelQ1
    /\ (forest = ScenarioA2 /\ SearchReturned) =>
         /\ file_id = ArchiveQ1
         /\ ArchiveNode \in ListedFolders

\* scenario A, Q1.xlsx first, downloaded
C7_Witness ==
    /\ forest = ScenarioA1
    /\ outcome = "success"
    /\ file_id = TopLevelQ1
    /\ Cardinality(OpCalls("children")) = 1

\* ------------------------------------------------------------------------
\* Properties of get_response_id (SpecResolve)
\* ------------------------------------------------------------------------
RjHits == {i \in DOMAIN rj_value : rj_value[i].name = rj_match}

\* C8: on a well-formed listing get_response_id does not raise; it returns
\* the id of the lowest-index entry whose name is exactly the name asked
\* for, and None when there is no such entry.
C8_FirstExactMatch ==
    (pc # "get_response_id" /\ rj_resp = "ok") =>
        /\ ~rj_ret.raised
        /\ outcome = "running"
        /\ IF RjHits = {} THEN rj_ret.id = None
           ELSE \E i \in RjHits :
                  /\ rj_ret.id = rj_value[i].id
                  /\ \A j \in 1..(i - 1) : j \notin RjHits

\* two entries carry the name, the first of them after an entry whose name
\* differs only in case
C8_Witness ==
    /\ pc = "returned"
    /\ Cardinality(RjHits) = 2
    /\ rj_ret.id = 2
    /\ Lower(rj_value[1].name) = Lower(rj_match)

\* ------------------------------------------------------------------------
\* Order of the external calls of download_file (Spec)
\* ------------------------------------------------------------------------
\* the place of a call in the sequence token, drive listing, drive-root
\* listing, children listings, metadata fetch, byte retrieval
PhaseOf(op) ==
    CASE op = "token" -> 1
      [] op = "drives" -> 2
      [] op = "root_children" -> 3
      [] op = "children" -> 4
      [] op = "metadata" -> 5
      [] op = "retrieve" -> 6

\* C11: the external calls of a download_file invocation occur in the
\* order token acquisition, drive listing, drive-root listing, children
\* listings of the search, metadata fetch, byte retrieval.  The metadata
\* fetch and the byte retrieval are never issued more than once, and never
\* unless the search returned a file id (the retrieval only after a
\* metadata fetch that succeeded); an invocation that ends without a failed
\* request has issued each exactly once when the search returned a file id
\* and reports success, and has issued neither otherwise.  Success is
\* reported only when the last call is a byte retrieval that completed.
C11_CallOrder ==
    /\ \A i, j \in DOMAIN calls :
         i < j => PhaseOf(calls[i].op) <= PhaseOf(calls[j].op)
    /\ Cardinality(OpCalls("metadata")) <= 1
    /\ Cardinality(OpCalls("retrieve")) <= 1
    /\ OpCalls("metadata") # {} => (SearchReturned \/ pc = "done") /\ file_id # None
    /\ OpCalls("retrieve") # {} => OkCalls("metadata") # {} /\ file_id # None
    /\ (pc = "done" /\ FailedCalls = {}) =>
         IF file_id # None
         THEN /\ Cardinality(OpCalls("metadata")) = 1
              /\ Cardinality(OpCalls("retrieve")) = 1
              /\ outcome = "success"
         ELSE /\ OpCalls("metadata") = {}
              /\ OpCalls("retrieve") = {}
              /\ outcome = "not_found"
    /\ outcome = "success" =>
         /\ calls[Len(calls)].op = "retrieve"
         /\ calls[Len(calls)].resp = "ok"

\* a download that succeeded after a search through two folders, every
\* kind of call issued
C11_Witness ==
    /\ outcome = "success"
    /\ Cardinality(OpCalls("token")) = 2
    /\ Cardinality(OpCalls("children")) >= 2
    /\ Cardinality(OpCalls("metadata")) = 1
    /\ Cardinality(OpCalls("retrieve")) = 1

====
